---- MODULE Spec2Model ----
(***************************************************************************)
(* Model of src/main.py: a Telegram conversation bot that keeps one event  *)
(* per date in a Google Sheets worksheet.                                  *)
(*                                                                         *)
(* A text is a sequence of one-character strings, so that strip(), the     *)
(* date regular expression, int() and cell comparison are computed on the  *)
(* characters.  The button labels of the source are written with their     *)
(* English glosses (the source labels carry emoji and Cyrillic letters);   *)
(* labels are only ever compared for equality, stripped and matched        *)
(* against the date pattern.                                               *)
(***************************************************************************)
EXTENDS Integers, Sequences, FiniteSets, TLC

VARIABLES state, user_data, sheet, update, reply, raised, fault, calls, upserted,
          confirmed, in_call

vars == <<state, user_data, sheet, update, reply, raised, fault, calls, upserted,
          confirmed, in_call>>

(***************************************************************************)
(* Conversation states, src/main.py:38, and the END marker returned by     *)
(* cancel (the conversation key is then removed: no conversation).         *)
(***************************************************************************)
SELECTING_DATE == 0
SELECTING_ACTION == 1
ADDING_TITLE == 2
ADDING_DESCRIPTION == 3
CONFIRM_OVERWRITE == 4
CONFIRM_DELETE == 5
END == -1

States == {SELECTING_DATE, SELECTING_ACTION, ADDING_TITLE, ADDING_DESCRIPTION,
           CONFIRM_OVERWRITE, CONFIRM_DELETE}

(***************************************************************************)
(* Texts the chat channel delivers.                                        *)
(***************************************************************************)
DATE_A == <<"3", "1", ".", "1", "2", ".", "2", "0", "2", "4">>
DATE_B == <<"0", "1", ".", "0", "1", ".", "2", "0", "2", "4">>
PADDED_DATE_A == <<" ", "3", "1", ".", "1", "2", ".", "2", "0", "2", "4", " ">>
BAD_DAY_HIGH == <<"3", "2", ".", "1", "2", ".", "2", "0", "2", "4">>
BAD_DAY_ZERO == <<"0", "0", ".", "0", "1", ".", "2", "0", "2", "4">>
BAD_MONTH_HIGH == <<"3", "1", ".", "1", "3", ".", "2", "0", "2", "4">>
BAD_MONTH_ZERO == <<"0", "1", ".", "0", "0", ".", "2", "0", "2", "4">>
BAD_YEAR == <<"3", "1", ".", "1", "2", ".", "2", "0", "2", "3">>
BAD_SEPARATOR == <<"3", "1", "-", "1", "2", "-", "2", "0", "2", "4">>
BAD_SHORT == <<"1", ".", "1", ".", "2", "0", "2", "4">>
BAD_LONG == <<"3", "1", ".", "1", "2", ".", "2", "0", "2", "4", "5">>
TEAM_SYNC == <<"T", "e", "a", "m", " ", "S", "y", "n", "c">>

\* Button labels (src/main.py:41-51, 111-112).
VIEW == <<"V", "i", "e", "w">>
ADD_EDIT == <<"A", "d", "d", "/", "E", "d", "i", "t">>
DELETE == <<"D", "e", "l", "e", "t", "e">>
BACK_TO_DATE == <<"<", "<", " ", "B", "a", "c", "k", " ", "t", "o", " ", "d", "a", "t", "e">>
CONFIRM == <<"C", "o", "n", "f", "i", "r", "m">>
CANCEL == <<"C", "a", "n", "c", "e", "l">>
BACK == <<"<", "<", " ", "B", "a", "c", "k">>

\* Commands (src/main.py:254, 284) and one command no handler is registered for.
CMD_START == <<"/", "s", "t", "a", "r", "t">>
CMD_CANCEL == <<"/", "c", "a", "n", "c", "e", "l">>
CMD_HELP == <<"/", "h", "e", "l", "p">>

\* A label set that lacks the two confirmation labels.
MENU_TEXTS_ActionsOnly == {VIEW, ADD_EDIT, DELETE, BACK_TO_DATE}

\* src/main.py:111-112
MENU_TEXTS == {VIEW, ADD_EDIT, DELETE, BACK_TO_DATE, CONFIRM, CANCEL}

\* Every label of the three keyboards, src/main.py:41-51.
Labels == {VIEW, ADD_EDIT, DELETE, BACK_TO_DATE, CONFIRM, CANCEL, BACK}

Commands == {CMD_START, CMD_CANCEL, CMD_HELP}

DateLikeTexts == {DATE_A, DATE_B, PADDED_DATE_A, BAD_DAY_HIGH, BAD_DAY_ZERO,
                  BAD_MONTH_HIGH, BAD_MONTH_ZERO, BAD_YEAR, BAD_SEPARATOR,
                  BAD_SHORT, BAD_LONG}

\* Every text message (no command) the model delivers.
Texts == DateLikeTexts \cup Labels \cup {TEAM_SYNC}

\* Python's None (dict.get on a missing key, the value of an empty cell).
None == <<"None">>

(***************************************************************************)
(* str.strip() and is_valid_date, src/main.py:101-108.                     *)
(***************************************************************************)
Whitespace == {" ", "\n", "\t"}

Digits == {"0", "1", "2", "3", "4", "5", "6", "7", "8", "9"}

DigitValue(c) ==
    CASE c = "0" -> 0 [] c = "1" -> 1 [] c = "2" -> 2 [] c = "3" -> 3
      [] c = "4" -> 4 [] c = "5" -> 5 [] c = "6" -> 6 [] c = "7" -> 7
      [] c = "8" -> 8 [] c = "9" -> 9

RECURSIVE lstrip(_)
lstrip(s) == IF s # <<>> /\ Head(s) \in Whitespace THEN lstrip(Tail(s)) ELSE s

RECURSIVE rstrip(_)
rstrip(s) ==
    IF s # <<>> /\ s[Len(s)] \in Whitespace
    THEN rstrip(SubSeq(s, 1, Len(s) - 1))
    ELSE s

strip(s) == rstrip(lstrip(s))

\* int() of a run of digits (surrounding whitespace is accepted by int()).
RECURSIVE int(_)
int(s) ==
    LET d == strip(s)
    IN  IF d = <<>> THEN 0
        ELSE 10 * int(SubSeq(d, 1, Len(d) - 1)) + DigitValue(d[Len(d)])

\* re.match(r'^\d{2}\.\d{2}\.\d{4}$', s): '$' also matches before one final newline.
re_match_date(s) ==
    /\ \/ Len(s) = 10
       \/ Len(s) = 11 /\ s[11] = "\n"
    /\ \A i \in {1, 2, 4, 5, 7, 8, 9, 10} : s[i] \in Digits
    /\ s[3] = "."
    /\ s[6] = "."

\* A validation whose year bound is off by one.
is_valid_date_YearAfter2024(date_str) ==
    IF ~re_match_date(date_str) THEN FALSE
    ELSE LET day == int(SubSeq(date_str, 1, 2))
             month == int(SubSeq(date_str, 4, 5))
             year == int(SubSeq(date_str, 7, Len(date_str)))
         IN  1 <= month /\ month <= 12 /\ 1 <= day /\ day <= 31 /\ year > 2024

is_valid_date(date_str) ==
    IF ~re_match_date(date_str) THEN FALSE
    ELSE LET day == int(SubSeq(date_str, 1, 2))
             month == int(SubSeq(date_str, 4, 5))
             year == int(SubSeq(date_str, 7, Len(date_str)))
         IN  1 <= month /\ month <= 12 /\ 1 <= day /\ day <= 31 /\ year >= 2024

(***************************************************************************)
(* The worksheet: a sequence of rows of three cells (1 = date key,         *)
(* 2 = title, 3 = description).  '' is the empty cell.                     *)
(***************************************************************************)
EmptyCell == <<>>

BlankRow == <<EmptyCell, EmptyCell, EmptyCell>>

NotFound == [row |-> 0, col |-> 0]

\* Worksheet.find(query): the first cell, row by row and column by column
\* within a row, whose value equals the query; every column is searched.
find(s, query) ==
    LET hits == {rc \in (1..Len(s)) \X (1..3) : s[rc[1]][rc[2]] = query}
    IN  IF hits = {} THEN NotFound
        ELSE LET first == CHOOSE rc \in hits :
                            \A o \in hits :
                                \/ rc[1] < o[1]
                                \/ rc[1] = o[1] /\ rc[2] <= o[2]
             IN  [row |-> first[1], col |-> first[2]]

\* Worksheet.cell(row, col).value: None for an empty cell.
cell_value(s, row, col) ==
    IF row > Len(s) \/ s[row][col] = EmptyCell THEN None ELSE s[row][col]

\* Worksheet.col_values(col): the column down to its last non-empty cell.
col_values(s, col) ==
    LET used == {r \in 1..Len(s) : s[r][col] # EmptyCell}
        last == IF used = {} THEN 0 ELSE CHOOSE r \in used : \A o \in used : o <= r
    IN  [r \in 1..last |-> s[r][col]]

\* Worksheet.update_cell(row, col, value): the grid grows to hold the row.
update_cell(s, row, col, value) ==
    LET grown == [r \in 1..(IF row > Len(s) THEN row ELSE Len(s)) |->
                    IF r <= Len(s) THEN s[r] ELSE BlankRow]
    IN  [grown EXCEPT ![row][col] = value]

(***************************************************************************)
(* GoogleSheetsManager, src/main.py:54-98.  Every call of the sheet client *)
(* may fault; f names the call that faults ("none": no call does).  The    *)
(* constructor (fault "open") runs outside every try block.                *)
(***************************************************************************)
EventNone == [isNone |-> TRUE]

Event(date, title, description, exists) ==
    [isNone |-> FALSE, date |-> date, title |-> title,
     description |-> description, exists |-> exists]

\* bool(title or description) of two cell values.
Truthy(v) == v # None /\ v # EmptyCell

\* The calls of get_event_by_date that can fault on this sheet.
LookupFaults(s, date) ==
    {"none", "open", "find"} \cup
    (IF find(s, date) # NotFound THEN {"cell"} ELSE {})

get_event_by_date(s, date, f) ==
    IF f # "none" THEN EventNone
    ELSE LET cell == find(s, date)
         IN  IF cell # NotFound
             THEN LET title == cell_value(s, cell.row, 2)
                      description == cell_value(s, cell.row, 3)
                  IN  Event(date, title, description,
                            Truthy(title) \/ Truthy(description))
             ELSE Event(date, None, None, FALSE)

\* The calls of update_event that can fault on this sheet.
UpdateFaults(s, date) ==
    {"none", "open", "find", "update_cell_2", "update_cell_3"} \cup
    (IF find(s, date) = NotFound THEN {"col_values", "update_cell_1"} ELSE {})

\* An update_event that appends a row for every call, without the find.
update_event_AlwaysAppend(s, date, title, description, f) ==
    LET row == Len(col_values(s, 1)) + 1
        s1 == update_cell(s, row, 1, date)
        s2 == update_cell(s1, row, 2, title)
        s3 == update_cell(s2, row, 3, description)
    IN  CASE f \in {"find", "col_values", "update_cell_1"} -> [sheet |-> s, ret |-> FALSE]
          [] f = "update_cell_2" -> [sheet |-> s1, ret |-> FALSE]
          [] f = "update_cell_3" -> [sheet |-> s2, ret |-> FALSE]
          [] OTHER -> [sheet |-> s3, ret |-> TRUE]

\* Returns the sheet as the call leaves it and the boolean it returns.
update_event(s, date, title, description, f) ==
    LET cell == find(s, date)
        row == IF cell # NotFound THEN cell.row ELSE Len(col_values(s, 1)) + 1
        s1 == IF cell # NotFound THEN s ELSE update_cell(s, row, 1, date)
        s2 == update_cell(s1, row, 2, title)
        s3 == update_cell(s2, row, 3, description)
    IN  CASE f \in {"find", "col_values", "update_cell_1"} -> [sheet |-> s, ret |-> FALSE]
          [] f = "update_cell_2" -> [sheet |-> s1, ret |-> FALSE]
          [] f = "update_cell_3" -> [sheet |-> s2, ret |-> FALSE]
          [] OTHER -> [sheet |-> s3, ret |-> TRUE]

\* The calls of delete_event that can fault on this sheet.
DeleteFaults(s, date) ==
    {"none", "open", "find"} \cup
    (IF find(s, date) # NotFound THEN {"update_cell_2", "update_cell_3"} ELSE {})

delete_event(s, date, f) ==
    LET cell == find(s, date)
        s2 == update_cell(s, cell.row, 2, EmptyCell)
        s3 == update_cell(s2, cell.row, 3, EmptyCell)
    IN  CASE f = "find" -> [sheet |-> s, ret |-> FALSE]
          [] cell = NotFound -> [sheet |-> s, ret |-> FALSE]
          [] f = "update_cell_2" -> [sheet |-> s, ret |-> FALSE]
          [] f = "update_cell_3" -> [sheet |-> s2, ret |-> FALSE]
          [] OTHER -> [sheet |-> s3, ret |-> TRUE]

(***************************************************************************)
(* context.user_data: a dict, here a function on the keys it holds.        *)
(***************************************************************************)
EVENT_DATA == <<"event_data">>

EmptyDict == [k \in {} |-> None]

Get(d, k) == IF k \in DOMAIN d THEN d[k] ELSE None

Put(d, k, v) == [x \in (DOMAIN d) \cup {k} |-> IF x = k THEN v ELSE d[x]]

Pop(d, k) == [x \in (DOMAIN d) \ {k} |-> d[x]]

(***************************************************************************)
(* Replies, src/main.py:15-22.  A reply is the message template sent and   *)
(* the keyboard shown with it.                                             *)
(***************************************************************************)
NoReply == [text |-> "none", keyboard |-> "none"]

reply_with_keyboard(text, keyboard) == [text |-> text, keyboard |-> keyboard]

reply_without_keyboard(text) == [text |-> text, keyboard |-> "ReplyKeyboardRemove"]

(***************************************************************************)
(* ConversationHandler of main, src/main.py:252-285: the handler an update *)
(* is routed to.  A conversation that is not active (END) only looks at    *)
(* the entry points; an active one looks at the handlers of its state, in  *)
(* order, then at the fallbacks; it never looks at the entry points again. *)
(***************************************************************************)
\* filters.COMMAND: the text starts a bot command.
IsCommand(text) == text # <<>> /\ text[1] = "/"

\* filters.TEXT & ~filters.COMMAND
IsPlainText(text) == ~IsCommand(text)

\* fallbacks, src/main.py:284
Fallback(text) == IF text = CMD_CANCEL THEN "cancel" ELSE "ignored"

\* states[SELECTING_DATE], src/main.py:257-260
SelectingDateHandlers(text) ==
    IF text = BACK THEN "back_to_date"
    ELSE IF IsPlainText(text) THEN "handle_date_input"
    ELSE Fallback(text)

\* states[SELECTING_ACTION], src/main.py:261-266
SelectingActionHandlers(text) ==
    IF text = VIEW THEN "view_event"
    ELSE IF text = ADD_EDIT THEN "start_add_edit"
    ELSE IF text = DELETE THEN "start_delete"
    ELSE IF text = BACK_TO_DATE THEN "back_to_date"
    ELSE Fallback(text)

\* A routing in which the confirmation state accepts any text.
ConfirmOverwriteHandlers_AnyText(text) ==
    IF text = BACK THEN "back_to_date"
    ELSE IF IsPlainText(text) THEN "handle_overwrite_confirm"
    ELSE Fallback(text)

\* states[CONFIRM_OVERWRITE], src/main.py:267-270
ConfirmOverwriteHandlers(text) ==
    IF text \in {CONFIRM, CANCEL} THEN "handle_overwrite_confirm"
    ELSE IF text = BACK THEN "back_to_date"
    ELSE Fallback(text)

\* states[ADDING_TITLE], src/main.py:271-274
AddingTitleHandlers(text) ==
    IF text = BACK THEN "back_to_date"
    ELSE IF IsPlainText(text) THEN "handle_title_input"
    ELSE Fallback(text)

\* states[ADDING_DESCRIPTION], src/main.py:275-278
AddingDescriptionHandlers(text) ==
    IF text = BACK THEN "back_to_date"
    ELSE IF IsPlainText(text) THEN "handle_description_input"
    ELSE Fallback(text)

\* states[CONFIRM_DELETE], src/main.py:279-282
ConfirmDeleteHandlers(text) ==
    IF text \in {CONFIRM, CANCEL} THEN "handle_delete_confirm"
    ELSE IF text = BACK THEN "back_to_date"
    ELSE Fallback(text)

\* entry_points, src/main.py:253-255
EntryPoints(text) == IF text = CMD_START THEN "start" ELSE "ignored"

Route(st, text) ==
    CASE st = END -> EntryPoints(text)
      [] st = SELECTING_DATE -> SelectingDateHandlers(text)
      [] st = SELECTING_ACTION -> SelectingActionHandlers(text)
      [] st = CONFIRM_OVERWRITE -> ConfirmOverwriteHandlers(text)
      [] st = ADDING_TITLE -> AddingTitleHandlers(text)
      [] st = ADDING_DESCRIPTION -> AddingDescriptionHandlers(text)
      [] st = CONFIRM_DELETE -> ConfirmDeleteHandlers(text)

(***************************************************************************)
(* The environment: the users and the texts they send in each state.       *)
(***************************************************************************)
Users == {"u1", "u2"}

\* The sessions that receive updates in Spec (both users do in SpecTwo).
Sessions == {"u1"}

\* Texts entered as a title or a description; one of them equals a date key.
FieldTexts == {TEAM_SYNC, DATE_B}

Offered(st) ==
    Commands \cup
    (CASE st = END -> {TEAM_SYNC}
       [] st = SELECTING_DATE -> Texts
       [] st \in {ADDING_TITLE, ADDING_DESCRIPTION} -> FieldTexts \cup {BACK}
       [] OTHER -> Labels \cup {TEAM_SYNC})

\* No handler is inside a repository call.
Idle == [user |-> "none", text |-> <<>>]

Init ==
    /\ state = [u \in Users |-> END]
    /\ user_data = [u \in Users |-> EmptyDict]
    /\ sheet = <<>>
    /\ update = [user |-> "none", text |-> <<>>]
    /\ reply = NoReply
    /\ raised = FALSE
    /\ fault = "none"
    /\ calls = <<>>
    /\ upserted = {}
    /\ confirmed = [u \in Users |-> FALSE]
    /\ in_call = Idle

\* What every handler that makes no repository call records of its run.
NoRepositoryCall ==
    /\ raised' = FALSE
    /\ fault' = "none"
    /\ calls' = <<>>
    /\ UNCHANGED <<sheet, upserted>>

\* The constructor GoogleSheetsManager() faults: the exception leaves the
\* handler, no reply is sent and the conversation keeps its state.
ConstructorRaises ==
    /\ raised' = TRUE
    /\ fault' = "open"
    /\ calls' = <<>>
    /\ reply' = NoReply
    /\ UNCHANGED <<state, user_data, sheet, upserted>>

\* src/main.py:114-117
start(u, text) ==
    /\ Route(state[u], text) = "start"
    /\ update' = [user |-> u, text |-> text]
    /\ reply' = reply_without_keyboard("greeting")
    /\ state' = [state EXCEPT ![u] = SELECTING_DATE]
    /\ UNCHANGED user_data
    /\ NoRepositoryCall

\* A handle_date_input that validates the stripped text and stores the raw one.
handle_date_input_StoresRaw(u, text) ==
    /\ Route(state[u], text) = "handle_date_input"
    /\ update' = [user |-> u, text |-> text]
    /\ NoRepositoryCall
    /\ IF text \in MENU_TEXTS
       THEN /\ reply' = reply_without_keyboard("date_prompt")
            /\ state' = [state EXCEPT ![u] = SELECTING_DATE]
            /\ UNCHANGED user_data
       ELSE LET date == strip(text)
            IN  IF ~is_valid_date(date)
                THEN /\ reply' = reply_without_keyboard("invalid_format")
                     /\ state' = [state EXCEPT ![u] = SELECTING_DATE]
                     /\ UNCHANGED user_data
                ELSE /\ user_data' = [user_data EXCEPT
                                        ![u] = Put(@, "user_date", text)]
                     /\ reply' = reply_with_keyboard("choose_action", "actions_menu")
                     /\ state' = [state EXCEPT ![u] = SELECTING_ACTION]

\* src/main.py:119-136
handle_date_input(u, text) ==
    /\ Route(state[u], text) = "handle_date_input"
    /\ update' = [user |-> u, text |-> text]
    /\ NoRepositoryCall
    /\ IF text \in MENU_TEXTS
       THEN /\ reply' = reply_without_keyboard("date_prompt")
            /\ state' = [state EXCEPT ![u] = SELECTING_DATE]
            /\ UNCHANGED user_data
       ELSE LET date == strip(text)
            IN  IF ~is_valid_date(date)
                THEN /\ reply' = reply_without_keyboard("invalid_format")
                     /\ state' = [state EXCEPT ![u] = SELECTING_DATE]
                     /\ UNCHANGED user_data
                ELSE /\ user_data' = [user_data EXCEPT
                                        ![u] = Put(@, "user_date", date)]
                     /\ reply' = reply_with_keyboard("choose_action", "actions_menu")
                     /\ state' = [state EXCEPT ![u] = SELECTING_ACTION]

\* src/main.py:138-150
view_event(u, text) ==
    /\ Route(state[u], text) = "view_event"
    /\ update' = [user |-> u, text |-> text]
    /\ LET date == Get(user_data[u], "user_date")
       IN  \E f \in LookupFaults(sheet, date) :
             IF f = "open" THEN ConstructorRaises
             ELSE LET event_data == get_event_by_date(sheet, date, f)
                  IN  /\ raised' = FALSE
                      /\ fault' = f
                      /\ calls' = <<[op |-> "get_event_by_date", date |-> date]>>
                      /\ reply' = IF ~event_data.isNone /\ event_data.exists
                                  THEN reply_with_keyboard("event", "actions_menu")
                                  ELSE reply_with_keyboard("no_events", "actions_menu")
                      /\ state' = [state EXCEPT ![u] = SELECTING_ACTION]
                      /\ UNCHANGED <<user_data, sheet, upserted>>

\* src/main.py:152-167.  No handler ever reads user_data['existing_event']:
\* the model keeps that the key is set, not the snapshot stored under it.
start_add_edit(u, text) ==
    /\ Route(state[u], text) = "start_add_edit"
    /\ update' = [user |-> u, text |-> text]
    /\ LET date == Get(user_data[u], "user_date")
       IN  \E f \in LookupFaults(sheet, date) :
             IF f = "open" THEN ConstructorRaises
             ELSE LET event_data == get_event_by_date(sheet, date, f)
                  IN  /\ raised' = FALSE
                      /\ fault' = f
                      /\ calls' = <<[op |-> "get_event_by_date", date |-> date]>>
                      /\ UNCHANGED <<sheet, upserted>>
                      /\ IF ~event_data.isNone /\ event_data.exists
                         THEN /\ user_data' = [user_data EXCEPT
                                    ![u] = Put(@, "existing_event", EVENT_DATA)]
                              /\ reply' = reply_with_keyboard("already_planned",
                                                              "confirmation_keyboard")
                              /\ state' = [state EXCEPT ![u] = CONFIRM_OVERWRITE]
                         ELSE /\ UNCHANGED user_data
                              /\ reply' = reply_with_keyboard("enter_title", "back_keyboard")
                              /\ state' = [state EXCEPT ![u] = ADDING_TITLE]

\* src/main.py:169-175
handle_overwrite_confirm(u, text) ==
    /\ Route(state[u], text) = "handle_overwrite_confirm"
    /\ update' = [user |-> u, text |-> text]
    /\ NoRepositoryCall
    /\ UNCHANGED user_data
    /\ IF text = CANCEL
       THEN /\ reply' = reply_with_keyboard("action_cancelled", "actions_menu")
            /\ state' = [state EXCEPT ![u] = SELECTING_ACTION]
       ELSE /\ reply' = reply_with_keyboard("enter_new_title", "back_keyboard")
            /\ state' = [state EXCEPT ![u] = ADDING_TITLE]

\* src/main.py:177-180
handle_title_input(u, text) ==
    /\ Route(state[u], text) = "handle_title_input"
    /\ update' = [user |-> u, text |-> text]
    /\ NoRepositoryCall
    /\ user_data' = [user_data EXCEPT ![u] = Put(@, "user_title", text)]
    /\ reply' = reply_with_keyboard("enter_description", "back_keyboard")
    /\ state' = [state EXCEPT ![u] = ADDING_DESCRIPTION]

\* src/main.py:182-193
handle_description_input(u, text) ==
    /\ Route(state[u], text) = "handle_description_input"
    /\ update' = [user |-> u, text |-> text]
    /\ LET date == Get(user_data[u], "user_date")
           title == Get(user_data[u], "user_title")
           description == text
       IN  \E f \in UpdateFaults(sheet, date) :
             IF f = "open" THEN ConstructorRaises
             ELSE LET done == update_event(sheet, date, title, description, f)
                  IN  /\ raised' = FALSE
                      /\ fault' = f
                      /\ calls' = <<[op |-> "update_event", date |-> date,
                                     title |-> title, description |-> description]>>
                      /\ upserted' = upserted \cup {date}
                      /\ sheet' = done.sheet
                      /\ reply' = IF done.ret
                                  THEN reply_with_keyboard("updated", "actions_menu")
                                  ELSE reply_with_keyboard("save_error", "actions_menu")
                      /\ user_data' = [user_data EXCEPT ![u] = Pop(@, "user_title")]
                      /\ state' = [state EXCEPT ![u] = SELECTING_ACTION]

\* src/main.py:195-204
start_delete(u, text) ==
    /\ Route(state[u], text) = "start_delete"
    /\ update' = [user |-> u, text |-> text]
    /\ LET date == Get(user_data[u], "user_date")
       IN  \E f \in LookupFaults(sheet, date) :
             IF f = "open" THEN ConstructorRaises
             ELSE LET event_data == get_event_by_date(sheet, date, f)
                  IN  /\ raised' = FALSE
                      /\ fault' = f
                      /\ calls' = <<[op |-> "get_event_by_date", date |-> date]>>
                      /\ UNCHANGED <<user_data, sheet, upserted>>
                      /\ IF event_data.isNone \/ ~event_data.exists
                         THEN /\ reply' = reply_with_keyboard("nothing_to_delete",
                                                              "actions_menu")
                              /\ state' = [state EXCEPT ![u] = SELECTING_ACTION]
                         ELSE /\ reply' = reply_with_keyboard("confirm_delete",
                                                              "confirmation_keyboard")
                              /\ state' = [state EXCEPT ![u] = CONFIRM_DELETE]

\* src/main.py:206-217
handle_delete_confirm(u, text) ==
    /\ Route(state[u], text) = "handle_delete_confirm"
    /\ update' = [user |-> u, text |-> text]
    /\ IF text = CANCEL
       THEN /\ NoRepositoryCall
            /\ reply' = reply_with_keyboard("delete_cancelled", "actions_menu")
            /\ state' = [state EXCEPT ![u] = SELECTING_ACTION]
            /\ UNCHANGED user_data
       ELSE LET date == Get(user_data[u], "user_date")
            IN  \E f \in DeleteFaults(sheet, date) :
                  IF f = "open" THEN ConstructorRaises
                  ELSE LET done == delete_event(sheet, date, f)
                       IN  /\ raised' = FALSE
                           /\ fault' = f
                           /\ calls' = <<[op |-> "delete_event", date |-> date]>>
                           /\ sheet' = done.sheet
                           /\ reply' = IF done.ret
                                       THEN reply_with_keyboard("deleted", "actions_menu")
                                       ELSE reply_with_keyboard("delete_error",
                                                                "actions_menu")
                           /\ state' = [state EXCEPT ![u] = SELECTING_ACTION]
                           /\ UNCHANGED <<user_data, upserted>>

\* A back_to_date that clears one dictionary shared by every session.
back_to_date_SharedData(u, text) ==
    /\ Route(state[u], text) = "back_to_date"
    /\ update' = [user |-> u, text |-> text]
    /\ NoRepositoryCall
    /\ user_data' = [v \in Users |-> EmptyDict]
    /\ reply' = reply_without_keyboard("date_prompt")
    /\ state' = [state EXCEPT ![u] = SELECTING_DATE]

\* src/main.py:219-223
back_to_date(u, text) ==
    /\ Route(state[u], text) = "back_to_date"
    /\ update' = [user |-> u, text |-> text]
    /\ NoRepositoryCall
    /\ user_data' = [user_data EXCEPT ![u] = EmptyDict]
    /\ reply' = reply_without_keyboard("date_prompt")
    /\ state' = [state EXCEPT ![u] = SELECTING_DATE]

\* src/main.py:225-227
cancel(u, text) ==
    /\ Route(state[u], text) = "cancel"
    /\ update' = [user |-> u, text |-> text]
    /\ NoRepositoryCall
    /\ UNCHANGED user_data
    /\ reply' = reply_without_keyboard("action_cancelled")
    /\ state' = [state EXCEPT ![u] = END]

\* An update no handler of the conversation accepts: nothing runs.
ignored(u, text) ==
    /\ Route(state[u], text) = "ignored"
    /\ update' = [user |-> u, text |-> text]
    /\ NoRepositoryCall
    /\ reply' = NoReply
    /\ UNCHANGED <<state, user_data>>

\* History of the add/edit flow a session is in: confirmed[u] holds while u
\* is entering a title or a description after leaving CONFIRM_OVERWRITE by an
\* answer other than CANCEL (src/main.py:169-175); start_add_edit opens a new
\* flow (src/main.py:152-167) and the flag is dropped outside the two states.
Track(u, text) ==
    confirmed' = [confirmed EXCEPT ![u] =
        IF state'[u] \notin {ADDING_TITLE, ADDING_DESCRIPTION} THEN FALSE
        ELSE IF Route(state[u], text) = "handle_overwrite_confirm" THEN TRUE
        ELSE IF Route(state[u], text) = "start_add_edit" THEN FALSE
        ELSE @]

\* A handler runs from its first statement to its return in one step.
Whole(u, text) ==
    /\ in_call = Idle
    /\ Track(u, text)
    /\ UNCHANGED in_call

\* Application.run_polling, src/main.py:296: updates are handled one at a
\* time, each handler running to its end (the sheet calls are synchronous).
Next ==
    \/ \E u \in Sessions : \E text \in Offered(state[u]) :
          start(u, text) /\ Whole(u, text)
    \/ \E u \in Sessions : \E text \in Offered(state[u]) :
          handle_date_input(u, text) /\ Whole(u, text)
    \/ \E u \in Sessions : \E text \in Offered(state[u]) :
          view_event(u, text) /\ Whole(u, text)
    \/ \E u \in Sessions : \E text \in Offered(state[u]) :
          start_add_edit(u, text) /\ Whole(u, text)
    \/ \E u \in Sessions : \E text \in Offered(state[u]) :
          handle_overwrite_confirm(u, text) /\ Whole(u, text)
    \/ \E u \in Sessions : \E text \in Offered(state[u]) :
          handle_title_input(u, text) /\ Whole(u, text)
    \/ \E u \in Sessions : \E text \in Offered(state[u]) :
          handle_description_input(u, text) /\ Whole(u, text)
    \/ \E u \in Sessions : \E text \in Offered(state[u]) :
          start_delete(u, text) /\ Whole(u, text)
    \/ \E u \in Sessions : \E text \in Offered(state[u]) :
          handle_delete_confirm(u, text) /\ Whole(u, text)
    \/ \E u \in Sessions : \E text \in Offered(state[u]) :
          back_to_date(u, text) /\ Whole(u, text)
    \/ \E u \in Sessions : \E text \in Offered(state[u]) :
          cancel(u, text) /\ Whole(u, text)
    \/ \E u \in Sessions : \E text \in Offered(state[u]) :
          ignored(u, text) /\ Whole(u, text)

Spec == Init /\ [][Next]_vars

(***************************************************************************)
(* Two sessions, and a handler's repository call as a step of its own.     *)
(* The handlers call gspread synchronously inside their coroutine          *)
(* (src/main.py:140, 154, 187, 197, 212: no await, no executor) and the    *)
(* Application is built without concurrent updates (src/main.py:250): the  *)
(* event loop is held from the start of the call to its return, and the    *)
(* next update is taken only after the handler has returned.               *)
(***************************************************************************)

\* The handlers that call the repository.
MakesCall(st, text) ==
    \/ Route(st, text) \in {"view_event", "start_add_edit",
                            "handle_description_input", "start_delete"}
    \/ Route(st, text) = "handle_delete_confirm" /\ text # CANCEL

\* The texts the two sessions send: the commands, one date (both sessions
\* work on the same event), the buttons of the keyboard on display and one
\* field text.
OfferedTwo(st) ==
    {CMD_START, CMD_CANCEL} \cup
    (CASE st = END -> {}
       [] st = SELECTING_DATE -> {DATE_A}
       [] st = SELECTING_ACTION -> {VIEW, ADD_EDIT, DELETE, BACK_TO_DATE}
       [] st \in {ADDING_TITLE, ADDING_DESCRIPTION} -> {TEAM_SYNC, BACK}
       [] OTHER -> {CONFIRM, CANCEL, BACK})

\* The handler of update (u, text) reaches its repository call: the
\* synchronous call starts and nothing else has happened yet.
call_begins(u, text) ==
    /\ in_call = Idle
    /\ MakesCall(state[u], text)
    /\ in_call' = [user |-> u, text |-> text]
    /\ UNCHANGED <<state, user_data, sheet, update, reply, raised, fault, calls,
                   upserted, confirmed>>

\* A handler that calls no repository runs while no call is in progress.
Direct(u, text) ==
    /\ in_call = Idle
    /\ ~MakesCall(state[u], text)
    /\ Track(u, text)
    /\ UNCHANGED in_call

\* The repository call in progress returns and its handler runs to its end.
Returns ==
    /\ Track(in_call.user, in_call.text)
    /\ in_call' = Idle

\* What one session can have processed in the current state.
Processes(u) ==
    \E text \in OfferedTwo(state[u]) :
        \/ call_begins(u, text)
        \/ /\ \/ start(u, text) \/ handle_date_input(u, text)
              \/ handle_overwrite_confirm(u, text) \/ handle_title_input(u, text)
              \/ handle_delete_confirm(u, text) \/ back_to_date(u, text)
              \/ cancel(u, text) \/ ignored(u, text)
           /\ Direct(u, text)

NextTwo ==
    \/ \E u \in Users : \E text \in OfferedTwo(state[u]) :
          start(u, text) /\ Direct(u, text)
    \/ \E u \in Users : \E text \in OfferedTwo(state[u]) :
          handle_date_input(u, text) /\ Direct(u, text)
    \/ \E u \in Users : \E text \in OfferedTwo(state[u]) :
          handle_overwrite_confirm(u, text) /\ Direct(u, text)
    \/ \E u \in Users : \E text \in OfferedTwo(state[u]) :
          handle_title_input(u, text) /\ Direct(u, text)
    \/ \E u \in Users : \E text \in OfferedTwo(state[u]) :
          handle_delete_confirm(u, text) /\ Direct(u, text)
    \/ \E u \in Users : \E text \in OfferedTwo(state[u]) :
          back_to_date(u, text) /\ Direct(u, text)
    \/ \E u \in Users : \E text \in OfferedTwo(state[u]) :
          cancel(u, text) /\ Direct(u, text)
    \/ \E u \in Users : \E text \in OfferedTwo(state[u]) :
          ignored(u, text) /\ Direct(u, text)
    \/ \E u \in Users : \E text \in OfferedTwo(state[u]) : call_begins(u, text)
    \/ in_call # Idle /\ view_event(in_call.user, in_call.text) /\ Returns
    \/ in_call # Idle /\ start_add_edit(in_call.user, in_call.text) /\ Returns
    \/ in_call # Idle /\ handle_description_input(in_call.user, in_call.text) /\ Returns
    \/ in_call # Idle /\ start_delete(in_call.user, in_call.text) /\ Returns
    \/ in_call # Idle /\ handle_delete_confirm(in_call.user, in_call.text) /\ Returns

SpecTwo == Init /\ [][NextTwo]_vars

(***************************************************************************)
(* Vocabulary of the properties below.  In a step, update' is the update   *)
(* the step handles and the unprimed variables are the session and the     *)
(* sheet the handler finds.                                                *)
(***************************************************************************)
user_date(u) == Get(user_data[u], "user_date")

user_title(u) == Get(user_data[u], "user_title")

\* The step handles the text for session u, found in state st.
Handles(u, st, text) == update'.user = u /\ update'.text = text /\ state[u] = st

\* The step handles some plain text other than the back label for session u.
HandlesText(u, st) ==
    /\ update'.user = u
    /\ state[u] = st
    /\ IsPlainText(update'.text)
    /\ update'.text # BACK

\* A record exists for the date: a row keyed by it holds a title or a description.
HasRecord(s, date) ==
    \E r \in 1..Len(s) :
        s[r][1] = date /\ (s[r][2] # EmptyCell \/ s[r][3] # EmptyCell)

\* The text is exactly of the form DD.MM.YYYY with the ranges of the validation.
IsDateForm(text) ==
    /\ Len(text) = 10
    /\ \A i \in {1, 2, 4, 5, 7, 8, 9, 10} : text[i] \in Digits
    /\ text[3] = "." /\ text[6] = "."
    /\ LET day == 10 * DigitValue(text[1]) + DigitValue(text[2])
           month == 10 * DigitValue(text[4]) + DigitValue(text[5])
           year == 1000 * DigitValue(text[7]) + 100 * DigitValue(text[8])
                   + 10 * DigitValue(text[9]) + DigitValue(text[10])
       IN  day \in 1..31 /\ month \in 1..12 /\ year >= 2024

(***************************************************************************)
(* C1  Add flow.  From SelectingDate, a valid date d that has no record,   *)
(* then add/edit, then a title t, then a description s (neither the back   *)
(* label) pass through SelectingAction, AddingTitle and AddingDescription  *)
(* in that order; the repository is asked to upsert exactly once, with     *)
(* (d, t, s), and when the store does not fault the session ends in        *)
(* SelectingAction with the success reply.  Stated step by step.           *)
(***************************************************************************)
C1_DateStep(u) ==
    (update'.user = u /\ state[u] = SELECTING_DATE /\ IsDateForm(update'.text))
        => /\ state'[u] = SELECTING_ACTION
           /\ user_date(u)' = update'.text
           /\ calls' = <<>>

C1_AddEditStep(u) ==
    (/\ Handles(u, SELECTING_ACTION, ADD_EDIT)
     /\ update.user = u /\ reply.text = "choose_action"
     /\ ~HasRecord(sheet, user_date(u))
     /\ fault' = "none")
        => /\ state'[u] = ADDING_TITLE
           /\ user_date(u)' = user_date(u)
           /\ calls' = <<[op |-> "get_event_by_date", date |-> user_date(u)]>>

C1_TitleStep(u) ==
    HandlesText(u, ADDING_TITLE)
        => /\ state'[u] = ADDING_DESCRIPTION
           /\ user_title(u)' = update'.text
           /\ user_date(u)' = user_date(u)
           /\ calls' = <<>>

C1_DescriptionStep(u) ==
    (HandlesText(u, ADDING_DESCRIPTION) /\ fault' = "none")
        => /\ calls' = <<[op |-> "update_event", date |-> user_date(u),
                          title |-> user_title(u), description |-> update'.text]>>
           /\ state'[u] = SELECTING_ACTION
           /\ reply' = reply_with_keyboard("updated", "actions_menu")

C1_AddFlow ==
    [][\A u \in Users :
         /\ C1_DateStep(u)
         /\ C1_AddEditStep(u)
         /\ C1_TitleStep(u)
         /\ C1_DescriptionStep(u)]_vars

(***************************************************************************)
(* C2  Overwrite flow, as claimed.  When a record exists for the selected  *)
(* date (and the lookup answers), add/edit in SelectingAction moves to     *)
(* ConfirmOverwrite; there, "cancel" returns to SelectingAction and leaves *)
(* the sheet unchanged, and every other text (the back label, which has   *)
(* its own transition, set aside) moves to AddingTitle.                    *)
(***************************************************************************)
C2_EntersConfirm(u) ==
    (/\ Handles(u, SELECTING_ACTION, ADD_EDIT)
     /\ HasRecord(sheet, user_date(u))
     /\ fault' = "none")
        => state'[u] = CONFIRM_OVERWRITE

C2_Cancel(u) ==
    Handles(u, CONFIRM_OVERWRITE, CANCEL)
        => /\ state'[u] = SELECTING_ACTION
           /\ sheet' = sheet

C3_WriteAlwaysReturns ==
    [][\A u \in Users :
         (HandlesText(u, ADDING_DESCRIPTION) \/ Handles(u, CONFIRM_DELETE, CONFIRM))
            => /\ raised' = FALSE
               /\ reply' # NoReply
               /\ state'[u] = SELECTING_ACTION]_vars

(***************************************************************************)
(* C4  In each of the six states the back label resets the session (no     *)
(* selected date, no pending title), prompts for a date again and moves    *)
(* to SelectingDate.                                                       *)
(***************************************************************************)
C4_BackEverywhere ==
    [][\A u \in Users : \A st \in States :
         Handles(u, st, BACK)
            => /\ state'[u] = SELECTING_DATE
               /\ user_date(u)' = None
               /\ user_title(u)' = None
               /\ reply' = reply_without_keyboard("date_prompt")]_vars

(***************************************************************************)
(* C5  The cancel command, in any state, ends the conversation and         *)
(* discards the session: afterwards it holds no selected date and no       *)
(* pending title.                                                          *)
(***************************************************************************)
C5_CancelDiscards ==
    [][\A u \in Users : \A st \in States :
         Handles(u, st, CMD_CANCEL)
            => /\ state'[u] = END
               /\ user_date(u)' = None
               /\ user_title(u)' = None]_vars

(***************************************************************************)
(* C6  The start command, whenever it is delivered (no conversation yet,   *)
(* after a cancel, in the middle of a conversation), clears every session  *)
(* field and puts the conversation in SelectingDate.                       *)
(***************************************************************************)
C6_StartResets ==
    [][\A u \in Users :
         (update'.user = u /\ update'.text = CMD_START)
            => /\ state'[u] = SELECTING_DATE
               /\ user_data'[u] = EmptyDict]_vars

(***************************************************************************)
(* C7  Date entry, as claimed.  In SelectingDate a text that is not        *)
(* exactly of the form DD.MM.YYYY (day 1..31, month 1..12, year >= 2024)   *)
(* is rejected: the state stays SelectingDate and the session data is      *)
(* unchanged; a text of that form is accepted, stored as the selected      *)
(* date, and moves the state to SelectingAction.                           *)
(***************************************************************************)
C7_Original ==
    [][\A u \in Users :
         (update'.user = u /\ state[u] = SELECTING_DATE /\ IsPlainText(update'.text))
            => IF IsDateForm(update'.text)
               THEN /\ state'[u] = SELECTING_ACTION
                    /\ user_date(u)' = update'.text
               ELSE /\ state'[u] = SELECTING_DATE
                    /\ user_data'[u] = user_data[u]]_vars

(***************************************************************************)
(* C7  Date entry, amended.  The criterion applies to the text with its    *)
(* surrounding whitespace stripped: in SelectingDate a text other than the *)
(* back label whose stripped form is not DD.MM.YYYY in range is rejected   *)
(* (state SelectingDate, session data unchanged); one whose stripped form  *)
(* is, is accepted, the stripped text becomes the selected date and the    *)
(* state SelectingAction.                                                  *)
(***************************************************************************)
C7_Validation ==
    [][\A u \in Users :
         HandlesText(u, SELECTING_DATE)
            => IF IsDateForm(strip(update'.text))
               THEN /\ state'[u] = SELECTING_ACTION
                    /\ user_date(u)' = strip(update'.text)
                    /\ user_title(u)' = user_title(u)
               ELSE /\ state'[u] = SELECTING_DATE
                    /\ user_data'[u] = user_data[u]]_vars

\* A date padded with blanks was entered in SelectingDate and accepted.
C7_Witness ==
    /\ update.user \in Users
    /\ update.text = PADDED_DATE_A
    /\ state[update.user] = SELECTING_ACTION
    /\ user_date(update.user) = DATE_A
    /\ reply = reply_with_keyboard("choose_action", "actions_menu")

(***************************************************************************)
(* C8  In SelectingDate a text equal to one of the six action and          *)
(* confirmation labels is answered with the plain date prompt, never with  *)
(* the invalid-format error; the state stays SelectingDate and the session *)
(* data is unchanged.                                                      *)
(***************************************************************************)
C8_MenuLabel ==
    [][\A u \in Users :
         (/\ update'.user = u
          /\ state[u] = SELECTING_DATE
          /\ update'.text \in {VIEW, ADD_EDIT, DELETE, BACK_TO_DATE, CONFIRM, CANCEL})
            => /\ reply' = reply_without_keyboard("date_prompt")
               /\ state'[u] = SELECTING_DATE
               /\ user_data'[u] = user_data[u]]_vars

\* A confirmation label was sent in SelectingDate by a session that still
\* holds a selected date, and was answered with the plain prompt.
C8_Witness ==
    /\ update.user \in Users
    /\ update.text = CONFIRM
    /\ state[update.user] = SELECTING_DATE
    /\ reply = reply_without_keyboard("date_prompt")
    /\ user_date(update.user) # None

(***************************************************************************)
(* C9  Round trip.  From every reachable sheet, a successful               *)
(* upsert(d, t, s) immediately followed by lookup(d) returns               *)
(* exists = true, title = t, description = s.                              *)
(***************************************************************************)
C9_RoundTrip ==
    (calls # <<>> /\ calls[1].op = "update_event" /\ fault = "none")
        => get_event_by_date(sheet, calls[1].date, "none")
             = Event(calls[1].date, calls[1].title, calls[1].description, TRUE)

(***************************************************************************)
(* C10  For every valid date that has never been the date of an upsert,    *)
(* whatever was upserted and cleared for other dates, lookup returns       *)
(* exists = false, title = none, description = none.                       *)
(***************************************************************************)
C10_NeverWritten ==
    \A d \in {t \in Texts : IsDateForm(t)} \ upserted :
        get_event_by_date(sheet, d, "none") = Event(d, None, None, FALSE)

(***************************************************************************)
(* C11  Upsert is idempotent.  From every reachable sheet, a successful    *)
(* upsert(d, t, s) followed at once by the same upsert, again successful,  *)
(* leaves the sheet exactly as the first call left it.                     *)
(***************************************************************************)
C11_Idempotent ==
    (calls # <<>> /\ calls[1].op = "update_event" /\ fault = "none")
        => LET again == update_event(sheet, calls[1].date, calls[1].title,
                                     calls[1].description, "none")
           IN  again.ret /\ again.sheet = sheet

(***************************************************************************)
(* C12  In every reachable sheet, whatever upserts and clears the sessions *)
(* have issued and however their updates interleave, each date key occurs  *)
(* in column 1 of at most one row.                                         *)
(***************************************************************************)
C12_KeyUnique ==
    \A r1, r2 \in 1..Len(sheet) :
        (r1 # r2 /\ sheet[r1][1] # EmptyCell) => sheet[r1][1] # sheet[r2][1]

\* One session's upsert has created the row of a date while the other
\* session, which saw no record for that date when it chose add/edit, is
\* about to send its description for the same date.
C12_Witness ==
    \E u, v \in Users :
        /\ u # v
        /\ update.user = u
        /\ calls # <<>> /\ calls[1].op = "update_event" /\ fault = "none"
        /\ state[v] = ADDING_DESCRIPTION /\ ~confirmed[v]
        /\ Len(sheet) = 1
        /\ sheet[1][1] = user_date(v) /\ sheet[1][1] = calls[1].date

(***************************************************************************)
(* C13  Soft delete keeps row addressing stable.  No step removes a row or *)
(* changes the key of a row; a successful clear(d) on a date with an       *)
(* existing record leaves the row keyed d in place with title and          *)
(* description blank, so that a lookup(d) made next finds the record with  *)
(* exists = false and an upsert(d, t, s) made next writes that row and     *)
(* appends none.                                                           *)
(***************************************************************************)
C13_SoftDelete ==
    [][/\ Len(sheet') >= Len(sheet)
       /\ \A r \in 1..Len(sheet) : sheet'[r][1] = sheet[r][1]
       /\ \A d \in {DATE_A, DATE_B} :
            (/\ calls' = <<[op |-> "delete_event", date |-> d]>>
             /\ fault' = "none"
             /\ reply'.text = "deleted"
             /\ HasRecord(sheet, d))
               => \E r \in 1..Len(sheet) :
                    /\ sheet[r][1] = d
                    /\ sheet'[r] = <<d, EmptyCell, EmptyCell>>
                    /\ ~get_event_by_date(sheet', d, "none").isNone
                    /\ ~get_event_by_date(sheet', d, "none").exists
                    /\ \A t, s \in FieldTexts :
                         LET done == update_event(sheet', d, t, s, "none")
                         IN  /\ Len(done.sheet) = Len(sheet')
                             /\ done.sheet[r] = <<d, t, s>>]_vars

(***************************************************************************)
(* C14  clear(d) on a date that no row of the sheet is keyed by does not   *)
(* fault: it leaves the sheet unchanged and returns an outcome different   *)
(* from the one it returns when the store faults.                          *)
(***************************************************************************)
C14_NothingToDelete ==
    \A d \in {DATE_A, DATE_B} :
        (\A r \in 1..Len(sheet) : sheet[r][1] # d)
            => LET absent == delete_event(sheet, d, "none")
                   faulted == delete_event(sheet, d, "find")
               IN  /\ absent.sheet = sheet
                   /\ absent.ret # faulted.ret

(***************************************************************************)
(* C15  A store fault during the lookup made by view, add/edit or delete   *)
(* in SelectingAction is never treated as NotFound: the handler sends a    *)
(* reply, and it is none of the replies given for a date with no record    *)
(* ("no events", "enter the title", "nothing to delete"); the session does *)
(* not move to AddingTitle.                                                *)
(***************************************************************************)
C15_FaultNotNotFound ==
    [][\A u \in Users :
         (/\ update'.user = u
          /\ state[u] = SELECTING_ACTION
          /\ update'.text \in {VIEW, ADD_EDIT, DELETE}
          /\ fault' # "none")
            => /\ reply' # NoReply
               /\ reply'.text \notin {"no_events", "enter_title", "nothing_to_delete"}
               /\ state'[u] # ADDING_TITLE]_vars

(***************************************************************************)
(* C16  Sessions are independent: a step that handles an update of one     *)
(* session leaves the state, the selected date and the pending title of    *)
(* every other session unchanged, however the updates interleave.          *)
(***************************************************************************)
C16_Independent ==
    [][\A a, b \in Users :
         (a # b /\ update'.user = a)
            => /\ state'[b] = state[b]
               /\ Get(user_data'[b], "user_date") = Get(user_data[b], "user_date")
               /\ Get(user_data'[b], "user_title") = Get(user_data[b], "user_title")]_vars

\* One session has just gone back to the date entry, its data cleared, while
\* the other is entering a description and holds its date and its title.
C16_Witness ==
    \E a, b \in Users :
        /\ a # b
        /\ update = [user |-> a, text |-> BACK]
        /\ state[a] = SELECTING_DATE /\ user_data[a] = EmptyDict
        /\ state[b] = ADDING_DESCRIPTION
        /\ user_date(b) = DATE_A /\ user_title(b) = TEAM_SYNC

(***************************************************************************)
(* C17  While one session is inside a repository call (lookup, upsert or   *)
(* clear started and not returned), the other sessions are not blocked: a  *)
(* session with an update to send can have it processed.                   *)
(***************************************************************************)
C17_OthersNotBlocked ==
    \A a, b \in Users :
        (a # b /\ in_call.user = a) => ENABLED Processes(b)

(***************************************************************************)
(* C18  No silent overwrite.  Whenever the upsert issued by                *)
(* handle_description_input is applied to a sheet in which the record of   *)
(* its date exists at that moment (title or description not empty), the   *)
(* issuing session has left ConfirmOverwrite by an answer other than       *)
(* cancel since its last add/edit; any number of sessions, store faults    *)
(* allowed.                                                                *)
(***************************************************************************)
C18_NoSilentOverwrite ==
    [][\A u \in Users :
         (/\ update'.user = u
          /\ state[u] = ADDING_DESCRIPTION
          /\ calls' # <<>>
          /\ calls'[1].op = "update_event"
          /\ fault' = "none"
          /\ HasRecord(sheet, calls'[1].date))
            => confirmed[u]]_vars

(***************************************************************************)
(* C19  Frame of the store.  Only two transitions write the sheet: a text  *)
(* in AddingDescription issues one upsert on the selected date, confirm in *)
(* ConfirmDelete issues one clear on the selected date, and neither        *)
(* changes a row keyed by another date or adds a row for another date.     *)
(* Every other transition leaves the sheet unchanged.                      *)
(***************************************************************************)
C19_Frame ==
    [][\A u \in Users :
         update'.user = u =>
           LET text == update'.text
               date == user_date(u)
               upserts == state[u] = ADDING_DESCRIPTION /\ IsPlainText(text)
                            /\ text # BACK
               clears == state[u] = CONFIRM_DELETE /\ text = CONFIRM
           IN  /\ upserts =>
                    calls' \in {<<>>, <<[op |-> "update_event", date |-> date,
                                        title |-> user_title(u),
                                        description |-> text]>>}
               /\ clears =>
                    calls' \in {<<>>, <<[op |-> "delete_event", date |-> date]>>}
               /\ (upserts \/ clears) =>
                    /\ \A r \in 1..Len(sheet) :
                         sheet[r][1] # date => sheet'[r] = sheet[r]
                    /\ \A r \in (Len(sheet) + 1)..Len(sheet') :
                         sheet'[r][1] = date
               /\ ~(upserts \/ clears) => sheet' = sheet]_vars

(***************************************************************************)
(* C20  Session well-formedness.  In SelectingAction, AddingTitle,         *)
(* AddingDescription, ConfirmOverwrite and ConfirmDelete the selected date *)
(* is set and is accepted by the date validation; in AddingDescription the *)
(* pending title is set; every lookup, upsert and clear is issued with a   *)
(* valid date and every upsert with a title.                               *)
(***************************************************************************)
C20_WellFormed ==
    /\ \A u \in Users :
         /\ state[u] \in States \ {SELECTING_DATE}
              => user_date(u) # None /\ is_valid_date(user_date(u))
         /\ state[u] = ADDING_DESCRIPTION => user_title(u) # None
    /\ \A i \in 1..Len(calls) :
         /\ calls[i].date # None /\ is_valid_date(calls[i].date)
         /\ calls[i].op = "update_event" => calls[i].title # None

\* The session is still in AddingDescription, with its date and its title,
\* after the constructor of the sheet client raised inside
\* handle_description_input.
C20_Witness ==
    \E u \in Users :
        /\ state[u] = ADDING_DESCRIPTION
        /\ update.user = u /\ update.text = TEAM_SYNC
        /\ raised /\ fault = "open"
        /\ user_title(u) = DATE_B
        /\ user_date(u) = DATE_A

====
